---- MODULE Spec2Model ----
(***************************************************************************)
(* Model of Final_ExchangeRates.py: one fetch of the ECB historical feed,  *)
(* the USD->ZAR cross rate per reported date, a full calendar-day axis up  *)
(* to the run date, the gap filler (rolling-mean fill, then interpolate),  *)
(* the monthly averages, the daily/monthly merge, the CSV and the plots.   *)
(*                                                                         *)
(* Dates are <<year, month, day>> triples.  Numbers are exact rationals    *)
(* <<numerator, denominator>> in lowest terms with denominator > 0; the    *)
(* rounding of IEEE doubles is not modelled.  NaN, the absent value of a   *)
(* float column, is the pair with denominator 0.                           *)
(***************************************************************************)
EXTENDS Integers, Sequences, FiniteSets, TLC

VARIABLES pc, status_code, content, today, data, df, df_full,
          monthly_avg_df, combined_df, globals, csv_written, csv_file,
          stdout, figures, plots, shown, error

vars == <<pc, status_code, content, today, data, df, df_full,
          monthly_avg_df, combined_df, globals, csv_written, csv_file,
          stdout, figures, plots, shown, error>>

---------------------------------------------------------------------------
(* Bounds *)

\* most dated cubes in one feed document
MaxFeed == 2
\* number of consecutive calendar days the feed and the run date range over
NumDays == 5
\* longest daily series handed to the gap filler on its own
MaxLen == 5

---------------------------------------------------------------------------
(* Numbers *)

NaN == <<0, 0>>

isna(v) == v[2] = 0

Abs(n) == IF n < 0 THEN -n ELSE n

RECURSIVE GCD(_, _)
GCD(a, b) == IF b = 0 THEN a ELSE GCD(b, a % b)

\* the rational n/d (d # 0) in lowest terms
Rat(n, d) ==
    LET g == GCD(Abs(n), Abs(d))
        s == IF d < 0 THEN -1 ELSE 1
    IN  <<(s * n) \div g, (s * d) \div g>>

FromInt(n) == <<n, 1>>

\* float arithmetic: any NaN operand gives NaN
Add(a, b) == IF isna(a) \/ isna(b) THEN NaN
             ELSE Rat(a[1] * b[2] + b[1] * a[2], a[2] * b[2])

Sub(a, b) == IF isna(a) \/ isna(b) THEN NaN
             ELSE Rat(a[1] * b[2] - b[1] * a[2], a[2] * b[2])

Mul(a, b) == IF isna(a) \/ isna(b) THEN NaN
             ELSE Rat(a[1] * b[1], a[2] * b[2])

\* a / b for b # 0
Div(a, b) == IF isna(a) \/ isna(b) THEN NaN
             ELSE Rat(a[1] * b[2], a[2] * b[1])

\* sum of the numbers of a sequence of values, NaN skipped
RECURSIVE NanSum(_)
NanSum(vals) ==
    IF vals = <<>> THEN FromInt(0)
    ELSE IF isna(Head(vals)) THEN NanSum(Tail(vals))
    ELSE Add(Head(vals), NanSum(Tail(vals)))

RECURSIVE NanCount(_)
NanCount(vals) ==
    IF vals = <<>> THEN 0
    ELSE (IF isna(Head(vals)) THEN 0 ELSE 1) + NanCount(Tail(vals))

---------------------------------------------------------------------------
(* Calendar *)

IsLeap(y) == (y % 4 = 0 /\ y % 100 # 0) \/ y % 400 = 0

DaysInMonth(y, m) ==
    IF m = 2 THEN (IF IsLeap(y) THEN 29 ELSE 28)
    ELSE IF m \in {4, 6, 9, 11} THEN 30 ELSE 31

\* the calendar day after d (one step of freq='D')
NextDay(d) ==
    IF d[3] < DaysInMonth(d[1], d[2]) THEN <<d[1], d[2], d[3] + 1>>
    ELSE IF d[2] < 12 THEN <<d[1], d[2] + 1, 1>>
    ELSE <<d[1] + 1, 1, 1>>

DateLess(a, b) ==
    \/ a[1] < b[1]
    \/ a[1] = b[1] /\ a[2] < b[2]
    \/ a[1] = b[1] /\ a[2] = b[2] /\ a[3] < b[3]

DateLeq(a, b) == a = b \/ DateLess(a, b)

\* Series.dt.to_period("M"): the year+month of a date
to_period(d) == <<d[1], d[2]>>

PeriodLess(a, b) == a[1] < b[1] \/ (a[1] = b[1] /\ a[2] < b[2])

\* Period.astype(str): "YYYY-MM"
PeriodStr(p) ==
    ToString(p[1]) \o "-" \o (IF p[2] < 10 THEN "0" ELSE "") \o ToString(p[2])

\* pd.date_range(start, end, freq='D'): start, start+1, ... while <= end
RECURSIVE date_range(_, _)
date_range(start, end) ==
    IF DateLess(end, start) THEN <<>>
    ELSE <<start>> \o date_range(NextDay(start), end)

---------------------------------------------------------------------------
(* Inputs *)

\* the first calendar day the feed may report
FirstDate == <<2024, 1, 29>>

RECURSIVE DaysFrom(_, _)
DaysFrom(d, n) == IF n = 0 THEN <<>> ELSE <<d>> \o DaysFrom(NextDay(d), n - 1)

DaySeq == DaysFrom(FirstDate, NumDays)
Days == {DaySeq[i] : i \in 1..Len(DaySeq)}

StatusCodes == {200, 404}

Currencies == {"USD", "ZAR"}

\* the rates the feed may quote against EUR, per currency
RateOf(c) == IF c = "USD" THEN {2} ELSE {20, 30}

\* the dict built per dated cube: currency -> float(rate)
RateTables ==
    UNION {{r \in [S -> UNION {RateOf(c) : c \in S}] :
                \A c \in S : r[c] \in RateOf(c)} : S \in SUBSET Currencies}

Cubes == [time : Days, rates : RateTables]

Feeds == UNION {[1..n -> Cubes] : n \in 0..MaxFeed}

\* the run dates tried: inside the reported range and at its end
RunDates == {DaySeq[(NumDays + 1) \div 2], DaySeq[NumDays]}

---------------------------------------------------------------------------
(* Lines 21-31: the cross-rate extraction loop *)

\* line 27: both currencies are quoted for the date
HasBoth(rates) == "USD" \in DOMAIN rates /\ "ZAR" \in DOMAIN rates

\* the quotient taken the wrong way round: usd_to_eur / zar_to_eur
usd_to_zar_inverted(rates) == Div(FromInt(rates["USD"]), FromInt(rates["ZAR"]))

\* lines 28-30: zar_to_eur / usd_to_eur
usd_to_zar(rates) == Div(FromInt(rates["ZAR"]), FromInt(rates["USD"]))

\* lines 21-31: one [date, usd_to_zar] row per cube quoting both, in feed order
RECURSIVE ExtractData(_)
ExtractData(cubes) ==
    IF cubes = <<>> THEN <<>>
    ELSE LET c == Head(cubes)
             row == IF HasBoth(c.rates)
                    THEN <<[InformationDate |-> c.time,
                            USDtoZAR |-> usd_to_zar(c.rates)]>>
                    ELSE <<>>
         IN  row \o ExtractData(Tail(cubes))

---------------------------------------------------------------------------
(* Lines 34-36: the frame and its sort *)

Perms(n) == {p \in [1..n -> 1..n] : \A i, j \in 1..n : p[i] = p[j] => i = j}

IsSortedByDate(rows) ==
    \A i \in 1..(Len(rows) - 1) :
        DateLeq(rows[i].InformationDate, rows[i + 1].InformationDate)

\* sort_values(by="InformationDate"): the default sort is not stable, so rows
\* of equal date may come out in either order
sort_values(rows) ==
    {s \in {[i \in 1..Len(rows) |-> rows[p[i]]] : p \in Perms(Len(rows))} :
        IsSortedByDate(s)}

---------------------------------------------------------------------------
(* Lines 40-46: the full calendar axis and the left merge *)

\* the rows of right whose date is d, in right's order
RECURSIVE Matches(_, _)
Matches(d, right) ==
    IF right = <<>> THEN <<>>
    ELSE (IF Head(right).InformationDate = d THEN <<Head(right)>> ELSE <<>>)
         \o Matches(d, Tail(right))

\* pd.merge(left, right, on="InformationDate", how="left"): every left date in
\* order, once per matching right row, once with NaN when none matches
RECURSIVE merge_left(_, _)
merge_left(dates, right) ==
    IF dates = <<>> THEN <<>>
    ELSE LET d == Head(dates)
             m == Matches(d, right)
             rows == IF m = <<>>
                     THEN <<[InformationDate |-> d, USDtoZAR |-> NaN]>>
                     ELSE m
         IN  rows \o merge_left(Tail(dates), right)

---------------------------------------------------------------------------
(* Line 50: the rolling-mean fill *)

\* the window of rolling(3)
window == 3

\* Series.rolling(window).mean(): min_periods defaults to the window size, so
\* the mean exists only where all the window's positions k-window+1 .. k exist
\* and hold a number
rolling_mean(col) ==
    [k \in 1..Len(col) |->
        IF k >= window /\ \A i \in (k - window + 1)..k : ~isna(col[i])
        THEN Div(NanSum(SubSeq(col, k - window + 1, k)), FromInt(window))
        ELSE NaN]

\* Series.fillna(other): other's value where the series is NaN
fillna(col, other) ==
    [k \in 1..Len(col) |-> IF isna(col[k]) THEN other[k] ELSE col[k]]

Column(rows, name) == [k \in 1..Len(rows) |-> rows[k][name]]

\* line 50 as a whole, on the raw column
rolling_fill(raw) == fillna(raw, rolling_mean(raw))

---------------------------------------------------------------------------
(* Line 55: Series.interpolate() *)

\* position of the last number before k, 0 when there is none
PrevValid(col, k) ==
    LET S == {i \in 1..(k - 1) : ~isna(col[i])}
    IN  IF S = {} THEN 0 ELSE CHOOSE i \in S : \A j \in S : j <= i

\* position of the first number after k, 0 when there is none
NextValid(col, k) ==
    LET S == {i \in (k + 1)..Len(col) : ~isna(col[i])}
    IN  IF S = {} THEN 0 ELSE CHOOSE i \in S : \A j \in S : i <= j

\* interpolate(limit_area="inside"): only NaN between two numbers are filled
interpolate_inside(col) ==
    [k \in 1..Len(col) |->
        IF ~isna(col[k]) THEN col[k]
        ELSE LET i == PrevValid(col, k)
                 j == NextValid(col, k)
             IN  IF i = 0 \/ j = 0 THEN NaN
                 ELSE Add(col[i],
                          Div(Mul(Sub(col[j], col[i]), FromInt(k - i)),
                              FromInt(j - i)))]

\* the forward fill of the commented-out line 54: every NaN takes the last
\* number before it
interpolate_ffill(col) ==
    [k \in 1..Len(col) |->
        IF ~isna(col[k]) THEN col[k]
        ELSE IF PrevValid(col, k) = 0 THEN NaN ELSE col[PrevValid(col, k)]]

\* NaN after the last number continue the slope of the last two numbers
interpolate_extrapolate(col) ==
    [k \in 1..Len(col) |->
        IF ~isna(col[k]) THEN col[k]
        ELSE LET i == PrevValid(col, k)
                 j == NextValid(col, k)
                 h == IF i = 0 THEN 0 ELSE PrevValid(col, i)
             IN  IF i = 0 THEN NaN
                 ELSE IF j = 0
                      THEN (IF h = 0 THEN col[i]
                            ELSE Add(col[i],
                                     Div(Mul(Sub(col[i], col[h]), FromInt(k - i)),
                                         FromInt(i - h))))
                 ELSE Add(col[i],
                          Div(Mul(Sub(col[j], col[i]), FromInt(k - i)),
                              FromInt(j - i)))]

\* linear over row positions, limit_direction forward: NaN before the first
\* number stay, NaN after the last number take the last number
interpolate(col) ==
    [k \in 1..Len(col) |->
        IF ~isna(col[k]) THEN col[k]
        ELSE LET i == PrevValid(col, k)
                 j == NextValid(col, k)
             IN  IF i = 0 THEN NaN
                 ELSE IF j = 0 THEN col[i]
                 ELSE Add(col[i],
                          Div(Mul(Sub(col[j], col[i]), FromInt(k - i)),
                              FromInt(j - i)))]

---------------------------------------------------------------------------
(* Lines 58-60: the monthly averages *)

\* GroupBy.mean(): NaN skipped, NaN when the group holds no number
nanmean(vals) ==
    IF NanCount(vals) = 0 THEN NaN
    ELSE Div(NanSum(vals), FromInt(NanCount(vals)))

\* the raw column in place of the filled one
MeanColumnRaw == "USDtoZAR"

\* the column the monthly mean is taken of
MeanColumn == "USDtoZAR_Fill"

\* the values of one group, in row order
RECURSIVE GroupValues(_, _)
GroupValues(rows, ym) ==
    IF rows = <<>> THEN <<>>
    ELSE (IF Head(rows).YearMonth = ym THEN <<Head(rows)[MeanColumn]>> ELSE <<>>)
         \o GroupValues(Tail(rows), ym)

\* the distinct keys in ascending order (groupby sorts its keys)
RECURSIVE SortedKeys(_)
SortedKeys(S) ==
    IF S = {} THEN <<>>
    ELSE LET m == CHOOSE x \in S : \A y \in S : x = y \/ PeriodLess(x, y)
         IN  <<m>> \o SortedKeys(S \ {m})

\* the groups without a number dropped from the result
groupby_mean_dropna(rows) ==
    LET keys == SortedKeys({rows[k].YearMonth : k \in
                               {i \in 1..Len(rows) : ~isna(rows[i].USDtoZAR_Fill)}})
    IN  [g \in 1..Len(keys) |->
            [YearMonth |-> PeriodStr(keys[g]),
             USDtoZAR_Fill |-> nanmean(GroupValues(rows, keys[g]))]]

\* groupby("YearMonth")["USDtoZAR_Fill"].mean().reset_index(), then the key
\* column converted to str
groupby_mean(rows) ==
    LET keys == SortedKeys({rows[k].YearMonth : k \in 1..Len(rows)})
    IN  [g \in 1..Len(keys) |->
            [YearMonth |-> PeriodStr(keys[g]),
             USDtoZAR_Fill |-> nanmean(GroupValues(rows, keys[g]))]]

---------------------------------------------------------------------------
(* Lines 63-73: the daily/monthly merge *)

\* the monthly rows whose key string is key, in order
RECURSIVE KeyMatches(_, _)
KeyMatches(key, monthly) ==
    IF monthly = <<>> THEN <<>>
    ELSE (IF Head(monthly).YearMonth = key THEN <<Head(monthly)>> ELSE <<>>)
         \o KeyMatches(key, Tail(monthly))

\* one combined row: helper columns dropped, the two Fill columns renamed
CombinedRow(r, avg) ==
    [InformationDate |-> r.InformationDate,
     USDtoZAR |-> r.USDtoZAR,
     USDtoZAR_Fill |-> r.USDtoZAR_Fill,
     USDtoZAR_MonthlyAver |-> avg]

RECURSIVE CombinedRows(_, _)
CombinedRows(r, ms) ==
    IF ms = <<>> THEN <<>>
    ELSE <<CombinedRow(r, Head(ms).USDtoZAR_Fill)>> \o CombinedRows(r, Tail(ms))

\* "YYYY-M": the month string without its zero padding
PeriodStrUnpadded(p) == ToString(p[1]) \o "-" \o ToString(p[2])

\* the merge with the left key built without zero padding
RECURSIVE merge_monthly_unpadded(_, _)
merge_monthly_unpadded(daily, monthly) ==
    IF daily = <<>> THEN <<>>
    ELSE LET r == Head(daily)
             m == KeyMatches(PeriodStrUnpadded(to_period(r.InformationDate)), monthly)
             rows == IF m = <<>> THEN <<CombinedRow(r, NaN)>>
                     ELSE CombinedRows(r, m)
         IN  rows \o merge_monthly_unpadded(Tail(daily), monthly)

\* pd.merge(df_full, monthly_avg_df, left_on=<month string of the date>,
\* right_on="YearMonth", how="left"), then drop and rename
RECURSIVE merge_monthly(_, _)
merge_monthly(daily, monthly) ==
    IF daily = <<>> THEN <<>>
    ELSE LET r == Head(daily)
             m == KeyMatches(PeriodStr(to_period(r.InformationDate)), monthly)
             rows == IF m = <<>> THEN <<CombinedRow(r, NaN)>>
                     ELSE CombinedRows(r, m)
         IN  rows \o merge_monthly(Tail(daily), monthly)

---------------------------------------------------------------------------
(* The script as a state machine *)

NoDate == <<0, 0, 0>>

Init ==
    /\ pc = "start"
    /\ status_code = 0
    /\ content = <<>>
    /\ today \in RunDates
    /\ data = <<>>
    /\ df = <<>>
    /\ df_full = <<>>
    /\ monthly_avg_df = <<>>
    /\ combined_df = <<>>
    /\ globals = {}
    /\ csv_written = FALSE
    /\ csv_file = <<>>
    /\ stdout = <<>>
    /\ figures = 0
    /\ plots = <<>>
    /\ shown = FALSE
    /\ error = "none"

\* line 10: requests.get(url); a failed response carries no cubes
Fetch ==
    /\ pc = "start"
    /\ \E sc \in StatusCodes, f \in Feeds :
          /\ sc # 200 => f = <<>>
          /\ status_code' = sc
          /\ content' = f
    /\ pc' = "fetched"
    /\ UNCHANGED <<today, data, df, df_full, monthly_avg_df, combined_df, globals,
                   csv_written, csv_file, stdout, figures, plots, shown, error>>

\* lines 13-31: the success branch parses the feed into data
Extract ==
    /\ pc = "fetched"
    /\ status_code = 200
    /\ data' = ExtractData(content)
    /\ globals' = globals \cup {"data"}
    /\ pc' = "frame"
    /\ UNCHANGED <<status_code, content, today, df, df_full, monthly_avg_df,
                   combined_df, csv_written, csv_file, stdout, figures, plots,
                   shown, error>>

\* lines 82-83: the else branch prints the diagnostic and falls through to the
\* plotting code at the top level
PrintFailure ==
    /\ pc = "fetched"
    /\ status_code # 200
    /\ stdout' = Append(stdout, "Failed to fetch")
    /\ pc' = "figure1"
    /\ UNCHANGED <<status_code, content, today, data, df, df_full, monthly_avg_df,
                   combined_df, globals, csv_written, csv_file, figures, plots,
                   shown, error>>

\* lines 34-36
BuildFrame ==
    /\ pc = "frame"
    /\ \E s \in sort_values(data) : df' = s
    /\ globals' = globals \cup {"df"}
    /\ pc' = "axis"
    /\ UNCHANGED <<status_code, content, today, data, df_full, monthly_avg_df,
                   combined_df, csv_written, csv_file, stdout, figures, plots,
                   shown, error>>

\* lines 40-46; min() of an empty column is NaT and date_range raises ValueError
FullAxis ==
    /\ pc = "axis"
    /\ \/ /\ df = <<>>
          /\ error' = "ValueError"
          /\ pc' = "crashed"
          /\ UNCHANGED <<df_full, globals>>
       \/ /\ df # <<>>
          /\ df_full' = merge_left(date_range(df[1].InformationDate, today), df)
          /\ globals' = globals \cup {"all_dates", "df_full"}
          /\ pc' = "fill"
          /\ UNCHANGED error
    /\ UNCHANGED <<status_code, content, today, data, df, monthly_avg_df,
                   combined_df, csv_written, csv_file, stdout, figures, plots, shown>>

\* line 50
RollingFill ==
    /\ pc = "fill"
    /\ LET f == rolling_fill(Column(df_full, "USDtoZAR"))
       IN  df_full' = [k \in 1..Len(df_full) |->
                          [InformationDate |-> df_full[k].InformationDate,
                           USDtoZAR |-> df_full[k].USDtoZAR,
                           USDtoZAR_Fill |-> f[k]]]
    /\ pc' = "interpolate"
    /\ UNCHANGED <<status_code, content, today, data, df, monthly_avg_df,
                   combined_df, globals, csv_written, csv_file, stdout, figures,
                   plots, shown, error>>

\* line 55
Interpolate ==
    /\ pc = "interpolate"
    /\ LET f == interpolate(Column(df_full, "USDtoZAR_Fill"))
       IN  df_full' = [k \in 1..Len(df_full) |->
                          [df_full[k] EXCEPT !.USDtoZAR_Fill = f[k]]]
    /\ pc' = "monthly"
    /\ UNCHANGED <<status_code, content, today, data, df, monthly_avg_df,
                   combined_df, globals, csv_written, csv_file, stdout, figures,
                   plots, shown, error>>

\* line 58: the YearMonth column
WithYearMonth(rows) ==
    [k \in 1..Len(rows) |->
        [InformationDate |-> rows[k].InformationDate,
         USDtoZAR |-> rows[k].USDtoZAR,
         USDtoZAR_Fill |-> rows[k].USDtoZAR_Fill,
         YearMonth |-> to_period(rows[k].InformationDate)]]

\* lines 58-60
MonthlyAvg ==
    /\ pc = "monthly"
    /\ df_full' = WithYearMonth(df_full)
    /\ monthly_avg_df' = groupby_mean(WithYearMonth(df_full))
    /\ globals' = globals \cup {"monthly_avg_df"}
    /\ pc' = "merge"
    /\ UNCHANGED <<status_code, content, today, data, df, combined_df,
                   csv_written, csv_file, stdout, figures, plots, shown, error>>

\* lines 63-73
Merge ==
    /\ pc = "merge"
    /\ combined_df' = merge_monthly(df_full, monthly_avg_df)
    /\ globals' = globals \cup {"combined_df"}
    /\ pc' = "save"
    /\ UNCHANGED <<status_code, content, today, data, df, df_full, monthly_avg_df,
                   csv_written, csv_file, stdout, figures, plots, shown, error>>

\* lines 76-80
SaveCsv ==
    /\ pc = "save"
    /\ csv_written' = TRUE
    /\ csv_file' = combined_df
    /\ stdout' = stdout \o <<"saved", "combined_df">>
    /\ pc' = "figure1"
    /\ UNCHANGED <<status_code, content, today, data, df, df_full, monthly_avg_df,
                   combined_df, globals, figures, plots, shown, error>>

\* line 87: plt.figure, reached on both branches
Figure1 ==
    /\ pc = "figure1"
    /\ figures' = figures + 1
    /\ pc' = "plot_daily"
    /\ UNCHANGED <<status_code, content, today, data, df, df_full, monthly_avg_df,
                   combined_df, globals, csv_written, csv_file, stdout, plots,
                   shown, error>>

\* lines 88-94: the arguments read combined_df, a NameError when the success
\* branch never bound it
PlotDaily ==
    /\ pc = "plot_daily"
    /\ \/ /\ "combined_df" \in globals
          /\ plots' = Append(plots, "USDtoZAR")
          /\ pc' = "figure2"
          /\ UNCHANGED error
       \/ /\ "combined_df" \notin globals
          /\ error' = "NameError"
          /\ pc' = "crashed"
          /\ UNCHANGED plots
    /\ UNCHANGED <<status_code, content, today, data, df, df_full, monthly_avg_df,
                   combined_df, globals, csv_written, csv_file, stdout, figures,
                   shown>>

\* line 97
Figure2 ==
    /\ pc = "figure2"
    /\ figures' = figures + 1
    /\ pc' = "plot_monthly"
    /\ UNCHANGED <<status_code, content, today, data, df, df_full, monthly_avg_df,
                   combined_df, globals, csv_written, csv_file, stdout, plots,
                   shown, error>>

\* lines 98-104
PlotMonthly ==
    /\ pc = "plot_monthly"
    /\ plots' = Append(plots, "USDtoZAR_MonthlyAver")
    /\ pc' = "show"
    /\ UNCHANGED <<status_code, content, today, data, df, df_full, monthly_avg_df,
                   combined_df, globals, csv_written, csv_file, stdout, figures,
                   shown, error>>

\* line 107
Show ==
    /\ pc = "show"
    /\ shown' = TRUE
    /\ pc' = "done"
    /\ UNCHANGED <<status_code, content, today, data, df, df_full, monthly_avg_df,
                   combined_df, globals, csv_written, csv_file, stdout, figures,
                   plots, error>>

Next ==
    \/ Fetch
    \/ Extract
    \/ PrintFailure
    \/ BuildFrame
    \/ FullAxis
    \/ RollingFill
    \/ Interpolate
    \/ MonthlyAvg
    \/ Merge
    \/ SaveCsv
    \/ Figure1
    \/ PlotDaily
    \/ Figure2
    \/ PlotMonthly
    \/ Show

Spec == Init /\ [][Next]_vars

---------------------------------------------------------------------------
(* The gap filler, the aggregator and the merger on their own: any daily    *)
(* series over a contiguous calendar-day axis, values present or absent    *)

\* the cross rates the feed's quotes can give
DerivedRates == {usd_to_zar(r) : r \in {t \in RateTables : HasBoth(t)}}

RawValues == {NaN} \cup DerivedRates

\* the daily series of n days from start with the raw column raw
DailySeries(start, raw) ==
    LET dates == DaysFrom(start, Len(raw))
    IN  [k \in 1..Len(raw) |-> [InformationDate |-> dates[k], USDtoZAR |-> raw[k]]]

InitFill ==
    /\ pc = "fill"
    /\ status_code = 200
    /\ content = <<>>
    /\ today = NoDate
    /\ data = <<>>
    /\ df = <<>>
    /\ \E start \in Days, n \in 1..MaxLen :
          \E raw \in [1..n -> RawValues] : df_full = DailySeries(start, raw)
    /\ monthly_avg_df = <<>>
    /\ combined_df = <<>>
    /\ globals = {"df_full"}
    /\ csv_written = FALSE
    /\ csv_file = <<>>
    /\ stdout = <<>>
    /\ figures = 0
    /\ plots = <<>>
    /\ shown = FALSE
    /\ error = "none"

NextFill ==
    \/ RollingFill
    \/ Interpolate
    \/ MonthlyAvg
    \/ Merge

SpecFill == InitFill /\ [][NextFill]_vars

---------------------------------------------------------------------------
(* Properties *)

Raw == Column(df_full, "USDtoZAR")
Filled == Column(df_full, "USDtoZAR_Fill")

\* the program positions at which each stage's result exists
AfterFetch == pc \notin {"start", "fetched"}
AfterFrame == pc \in {"axis", "fill", "interpolate", "monthly", "merge", "save"}
AfterStep1 == pc = "interpolate"
AfterFill == pc \in {"monthly", "merge", "save"}
AfterMonthly == pc \in {"merge", "save"}
AfterMerge == pc \in {"save", "figure1", "plot_daily", "figure2",
                      "plot_monthly", "show", "done"}
                /\ "combined_df" \in globals

\* C1: after a fetch whose status is not 200 the run prints the diagnostic
\* and does nothing else: no CSV, no series, no figure, no plot, no show, and
\* it ends there
C1_FailureDoesNothingMore ==
    (AfterFetch /\ status_code # 200) =>
        /\ stdout = <<"Failed to fetch">>
        /\ ~csv_written
        /\ df_full = <<>> /\ monthly_avg_df = <<>> /\ combined_df = <<>>
        /\ figures = 0 /\ plots = <<>> /\ ~shown
        /\ error = "none"

\* C2: after the gap filler no filled value is absent at a row after a row
\* whose filled value is present
C2_AbsentOnlyAsPrefix ==
    AfterFill =>
        \A k \in 1..Len(df_full) :
            ~isna(Filled[k]) => \A m \in k..Len(df_full) : ~isna(Filled[m])

\* a series that keeps an absent prefix and had a later gap filled
C2_Witness ==
    /\ pc = "monthly"
    /\ Len(df_full) >= 4
    /\ isna(Filled[1])
    /\ \E k \in 2..Len(df_full) : isna(Raw[k]) /\ ~isna(Filled[k])
    /\ isna(Raw[Len(df_full)])

\* the dates on which some cube of the feed quotes both USD and ZAR
BothDates == {content[i].time : i \in {j \in 1..Len(content) : HasBoth(content[j].rates)}}

OutputDates == Column(combined_df, "InformationDate")

\* C3: the output's date column is exactly the calendar days from the first
\* date quoting both currencies up to the run date, each once, ascending
C3_AxisExactlyOncePerDay ==
    (AfterMerge /\ BothDates # {}) =>
        LET first == CHOOSE d \in BothDates : \A e \in BothDates : DateLeq(d, e)
        IN  /\ \A k \in 1..(Len(OutputDates) - 1) :
                   DateLess(OutputDates[k], OutputDates[k + 1])
            /\ {OutputDates[k] : k \in 1..Len(OutputDates)}
                  = {d \in Days : DateLeq(first, d) /\ DateLeq(d, today)}

\* C4: the derived series has a row for a reported date exactly when some
\* cube of that date quotes both currencies, one row per such cube, each
\* row's value times the USD rate equals the ZAR rate, and the rows ascend
C4_CrossRateSeries ==
    AfterFrame =>
        /\ \A d \in Days :
              (\E k \in 1..Len(df) : df[k].InformationDate = d) <=> d \in BothDates
        /\ Len(df) = Cardinality({i \in 1..Len(content) : HasBoth(content[i].rates)})
        /\ \A k \in 1..Len(df) :
              \E i \in 1..Len(content) :
                  /\ content[i].time = df[k].InformationDate
                  /\ HasBoth(content[i].rates)
                  /\ df[k].USDtoZAR[2] # 0
                  /\ df[k].USDtoZAR[1] * content[i].rates["USD"]
                        = content[i].rates["ZAR"] * df[k].USDtoZAR[2]
        /\ \A k \in 1..(Len(df) - 1) :
              DateLeq(df[k].InformationDate, df[k + 1].InformationDate)

\* a feed listing two usable dates newest first with different cross rates
C4_Witness ==
    /\ pc = "axis"
    /\ Len(content) = 2 /\ Len(df) = 2
    /\ DateLess(content[2].time, content[1].time)
    /\ df[1].USDtoZAR # df[2].USDtoZAR
    /\ df[1].InformationDate = content[2].time

\* the rows of the daily series that fall in month ym
RowsOf(ym) == {k \in 1..Len(df_full) : to_period(df_full[k].InformationDate) = ym}

\* those of them whose filled value is present
PresentRowsOf(ym) == {k \in RowsOf(ym) : ~isna(df_full[k].USDtoZAR_Fill)}

AxisMonths == {to_period(df_full[k].InformationDate) : k \in 1..Len(df_full)}

\* the entries the aggregator emitted for month ym
EntriesOf(ym) == {g \in 1..Len(monthly_avg_df) : monthly_avg_df[g].YearMonth = PeriodStr(ym)}

\* the sum of the filled values at the rows S
RECURSIVE FilledSum(_)
FilledSum(S) ==
    IF S = {} THEN FromInt(0)
    ELSE LET k == CHOOSE x \in S : TRUE
         IN  Add(df_full[k].USDtoZAR_Fill, FilledSum(S \ {k}))

\* C5: for every month of the axis that has a present filled value, the one
\* average emitted for it times the number of its present filled values
\* equals their sum: the mean is over USDtoZAR_Fill, absent values in
\* neither the sum nor the count
C5_MonthlyMeanOfFilled ==
    AfterMonthly =>
        \A ym \in AxisMonths :
            PresentRowsOf(ym) # {} =>
                /\ Cardinality(EntriesOf(ym)) = 1
                /\ \A g \in EntriesOf(ym) :
                      Mul(monthly_avg_df[g].USDtoZAR_Fill,
                          FromInt(Cardinality(PresentRowsOf(ym))))
                         = FilledSum(PresentRowsOf(ym))

\* a month holding an absent filled value, two different present ones, and a
\* filled value whose raw value is absent
C5_Witness ==
    /\ pc = "merge"
    /\ \E ym \in AxisMonths :
          /\ PresentRowsOf(ym) # RowsOf(ym)
          /\ \E i, j \in PresentRowsOf(ym) :
                /\ df_full[i].USDtoZAR_Fill # df_full[j].USDtoZAR_Fill
                /\ isna(df_full[i].USDtoZAR)

\* C6: the combined output has one row per daily row, in the same order and
\* with the same date, raw and filled values, and its monthly-average column
\* is the average of the one monthly entry for the row's year+month
C6_LeftJoinKeepsEveryRow ==
    AfterMerge =>
        /\ Len(combined_df) = Len(df_full)
        /\ \A k \in 1..Len(combined_df) :
              /\ combined_df[k].InformationDate = df_full[k].InformationDate
              /\ combined_df[k].USDtoZAR = df_full[k].USDtoZAR
              /\ combined_df[k].USDtoZAR_Fill = df_full[k].USDtoZAR_Fill
              /\ LET E == EntriesOf(to_period(df_full[k].InformationDate))
                 IN  /\ Cardinality(E) = 1
                     /\ \A g \in E : combined_df[k].USDtoZAR_MonthlyAver
                                        = monthly_avg_df[g].USDtoZAR_Fill

\* an output spanning two months whose averages differ
C6_Witness ==
    /\ pc = "save"
    /\ Len(combined_df) >= 3
    /\ \A k \in 1..(Len(OutputDates) - 1) : DateLess(OutputDates[k], OutputDates[k + 1])
    /\ \E i, j \in 1..Len(combined_df) :
          /\ to_period(combined_df[i].InformationDate)
                # to_period(combined_df[j].InformationDate)
          /\ combined_df[i].USDtoZAR_MonthlyAver # combined_df[j].USDtoZAR_MonthlyAver

WindowNumbers(k) == {i \in 1..Len(df_full) : k - 2 <= i /\ i <= k /\ ~isna(Raw[i])}

RECURSIVE RawSum(_)
RawSum(S) ==
    IF S = {} THEN FromInt(0)
    ELSE LET k == CHOOSE x \in S : TRUE
         IN  Add(Raw[k], RawSum(S \ {k}))

\* C8: after step 1, every row whose raw value is absent holds the mean of
\* the raw numbers among positions k-2, k-1, k, and is absent only when the
\* window holds none
C8_Step1MeanOfAvailable ==
    AfterStep1 =>
        \A k \in 1..Len(df_full) :
            isna(Raw[k]) =>
                IF WindowNumbers(k) = {} THEN isna(Filled[k])
                ELSE Filled[k] = Div(RawSum(WindowNumbers(k)),
                                     FromInt(Cardinality(WindowNumbers(k))))

\* rows i < j hold raw numbers and every row strictly between is absent
IsGap(i, j) ==
    /\ i + 1 < j
    /\ ~isna(Raw[i]) /\ ~isna(Raw[j])
    /\ \A k \in (i + 1)..(j - 1) : isna(Raw[k])

\* f = a + (b - a) * (k - i) / (j - i), cross-multiplied over the integers
OnLine(f, a, b, i, j, k) ==
    /\ f[2] # 0
    /\ f[1] * a[2] * b[2] * (j - i)
          = f[2] * (a[1] * b[2] * (j - i) + (b[1] * a[2] - a[1] * b[2]) * (k - i))

LastObserved ==
    LET S == {k \in 1..Len(df_full) : ~isna(Raw[k])}
    IN  IF S = {} THEN 0 ELSE CHOOSE k \in S : \A m \in S : m <= k

\* C10: every row after the last observed raw value, up to the run date,
\* is filled with that last observed value
C10_CarryForwardAfterLast ==
    (AfterFill /\ LastObserved # 0) =>
        \A k \in (LastObserved + 1)..Len(df_full) :
            Filled[k] = Raw[LastObserved]

\* two observed values that differ, then at least two days up to the run date
C10_Witness ==
    /\ pc = "monthly"
    /\ today # NoDate
    /\ LastObserved >= 2
    /\ Raw[1] # Raw[LastObserved]
    /\ df_full[1].InformationDate # df_full[LastObserved].InformationDate
    /\ LastObserved + 2 <= Len(df_full)
    /\ df_full[Len(df_full)].InformationDate = today

====
